---- MODULE Spec2Model ----
(***************************************************************************)
(* Model of the my-studies-app Angular shell:                              *)
(*   - AppComponent (responsive shell, debounced window:resize handling)   *)
(*   - GistComponent (trusted resource URL for an embedded gist), in its   *)
(*     two versions: the route-driven one documented in prettier.md and    *)
(*     the @Input one of gist.component.ts                                 *)
(*   - SideNavComponent's sidenav_closed output, consumed by the shell.    *)
(* Time is discrete, in milliseconds, advancing TickMs at a time.  A timer *)
(* whose delay has run out fires before time advances any further.         *)
(***************************************************************************)
EXTENDS Integers, Sequences, FiniteSets, TLC

\* ---------------------------------------------------------------- constants

\* debounceTime(200)
DebounceMs == 200
\* setTimeout(..., 1000)
LoadMs == 1000
\* window.innerWidth < 800
SmallScreenWidth == 800

\* granularity of the clock: two ticks per debounce window
TickMs == DebounceMs \div 2

\* the history variables count this many ticks past a deadline
ExtraTicks == 1
\* the history variables count this many resize events of a burst
MaxBurstCount == 2

\* viewport widths the environment can produce
Widths == {500, 700, 800, 1200}

\* identifiers the router / the parent template can deliver
Ids == {"abc123", "../x"}

\* static files present in the deployed bundle (assets/html/gist_<id>.html)
BundledAssets == {"abc123"}

\* null / no scheduled task
NoValue == 0 - 1
NoTask == 0 - 1

Min(a, b) == IF a < b THEN a ELSE b

\* ---------------------------------------------------------------- state

VARIABLES
    \* window
    innerWidth,
    resizePending,   \* the viewport changed and its resize event is not yet dispatched
    \* AppComponent
    appPhase,        \* "constructed" | "initialized" | "destroyed"
    sideNavOpened,
    isSmallScreen,
    subjectClosed,   \* resizeSubject.closed
    subscription,    \* the Subscription subscribe() returns: "none" | "open" | "closed"
    lastValue,       \* debounceTime: the value held back, or NoValue
    sinceLast,       \* debounceTime: now - lastTime, capped
    activeTask,      \* debounceTime: ms until the scheduled task runs, or NoTask
    lastError,       \* the last error thrown out of a handler
    \* GistComponent
    variant,         \* "route" (prettier.md) | "input" (gist.component.ts)
    gistPhase,       \* "constructed" | "initialized"
    gist,            \* the component's fields: safeUrl, gistId (and loading)
    loadTimer,       \* ms until the setTimeout callback runs, or NoTask
    \* Router
    url,             \* the segments of the URL the router recognized last
    activated,       \* what the routes made of it: component, params, final url
    \* history
    sinceInit,       \* ms since GistComponent.ngOnInit, capped
    burstEvents,     \* resize events of the current burst, capped
    burstOutputs,    \* debounced outputs since the last resize event
    trustCalls,      \* calls of DomSanitizer.bypassSecurityTrustResourceUrl
    lastOp           \* the handler that ran last

appVars == <<innerWidth, resizePending, appPhase, sideNavOpened, isSmallScreen, subjectClosed,
             subscription, lastValue, sinceLast, activeTask, lastError,
             burstEvents, burstOutputs>>
gistVars == <<variant, gistPhase, gist, loadTimer, sinceInit, trustCalls>>
routerVars == <<url, activated>>
vars == <<appVars, gistVars, routerVars, lastOp>>

\* ---------------------------------------------------------------- Router

\* the segments a URL can be made of
Segments == Ids \cup {"welcome"}

\* the longest URL navigated to, in segments
MaxSegments == 2

Paths == UNION {[1..n -> Segments] : n \in 0..MaxSegments}

\* a route of the configuration: its path as a sequence of segments, each a
\* parameter (':name') or a literal; '**' is the wildcard
Route(path, wildcard, pathMatch, component, redirect) ==
    [path |-> path, wildcard |-> wildcard, pathMatch |-> pathMatch,
     component |-> component, redirect |-> redirect, redirectTo |-> <<>>]

\* mutant: the wildcard route is declared before the ':gistId' route
RoutesWildcardFirst ==
    << Route(<<>>, FALSE, "full", "WelcomeComponent", FALSE),
       Route(<<>>, TRUE, "full", "none", TRUE),
       Route(<<[param |-> TRUE, name |-> "gistId"]>>, FALSE, "prefix",
             "GistComponent", FALSE) >>

\* const routes: Routes = [
\*   { path: '', pathMatch: 'full', component: WelcomeComponent },
\*   { path: ':gistId', component: GistComponent },
\*   { path: '**', pathMatch: 'full', redirectTo: '' } ]
Routes ==
    << Route(<<>>, FALSE, "full", "WelcomeComponent", FALSE),
       Route(<<[param |-> TRUE, name |-> "gistId"]>>, FALSE, "prefix",
             "GistComponent", FALSE),
       Route(<<>>, TRUE, "full", "none", TRUE) >>

\* whether a route matches the segments: the wildcard matches anything; any
\* other route matches its path against the leading segments, and, having no
\* children, matches only if no segment is left over
Matches(route, segs) ==
    \/ route.wildcard
    \/ /\ Len(segs) >= Len(route.path)
       /\ route.pathMatch = "full" => Len(segs) = Len(route.path)
       /\ \A i \in 1..Len(route.path) :
             route.path[i].param \/ route.path[i].name = segs[i]
       /\ Len(segs) = Len(route.path)

\* the parameters a matching route takes from the segments, as name/value pairs
ParamsOf(route, segs) ==
    IF route.wildcard
    THEN {}
    ELSE {<<route.path[i].name, segs[i]>> :
             i \in {j \in 1..Len(route.path) : route.path[j].param}}

\* the first route, in declaration order, that matches; 0 if none does
FirstMatch(segs) ==
    LET idx == {i \in 1..Len(Routes) : Matches(Routes[i], segs)}
    IN  IF idx = {} THEN 0 ELSE CHOOSE i \in idx : \A j \in idx : i <= j

\* the router's recognition of a URL, following redirects
RECURSIVE RecognizeFrom(_, _)
RecognizeFrom(segs, redirectsLeft) ==
    LET i == FirstMatch(segs)
    IN  IF i = 0 \/ (Routes[i].redirect /\ redirectsLeft = 0)
        THEN [component |-> "none", params |-> {}, url |-> segs]
        ELSE IF Routes[i].redirect
        THEN RecognizeFrom(Routes[i].redirectTo, redirectsLeft - 1)
        ELSE [component |-> Routes[i].component,
              params |-> ParamsOf(Routes[i], segs),
              url |-> segs]

Recognize(segs) == RecognizeFrom(segs, Len(Routes))

\* params['gistId']; a missing parameter reads as undefined, which the
\* template literal prints as "undefined"
GistIdParam(params) ==
    IF \E pr \in params : pr[1] = "gistId"
    THEN (CHOOSE pr \in params : pr[1] = "gistId")[2]
    ELSE "undefined"

\* ---------------------------------------------------------------- GistComponent

\* encodeURIComponent on the identifiers of Ids
EncodeURIComponent(id) == IF id = "../x" THEN "..%2Fx" ELSE id

\* mutant: the identifier is escaped before it is substituted
GistPathEscaped(id) == "assets/html/gist_" \o EncodeURIComponent(id) \o ".html"

\* `assets/html/gist_${this.gistId}.html`
GistPath(id) == "assets/html/gist_" \o id \o ".html"

\* DomSanitizer.bypassSecurityTrustResourceUrl: wraps the string, unchanged,
\* in a SafeResourceUrl
BypassSecurityTrustResourceUrl(path) ==
    [trusted |-> TRUE, changingThisBreaksApplicationSecurity |-> path]

\* safeUrl: SafeResourceUrl = ''
EmptyUrl == [trusted |-> FALSE, changingThisBreaksApplicationSecurity |-> ""]

\* the fields after the constructor ran; in the route-driven version the
\* params subscription has delivered the current route's gistId
GistConstructed(v, id) ==
    IF v = "route"
    THEN [safeUrl |-> EmptyUrl, gistId |-> id, loading |-> TRUE]
    ELSE [safeUrl |-> EmptyUrl, gistId |-> ""]

\* the application is opened on a gist page: the router has recognized the
\* URL and constructed the component
GistInit ==
    /\ variant \in {"route", "input"}
    /\ gistPhase = "constructed"
    /\ \E id \in Ids : url = <<id>>
    /\ activated = Recognize(url)
    /\ gist = GistConstructed(variant, GistIdParam(activated.params))
    /\ loadTimer = NoTask
    /\ sinceInit = 0
    /\ trustCalls = 0

\* mutant: ngOnInit returns early when it has no identifier
GistNgOnInitSkipsEmpty ==
    /\ gistPhase = "constructed"
    /\ gistPhase' = "initialized"
    /\ gist' = IF gist.gistId = ""
               THEN gist
               ELSE [gist EXCEPT
                       !.safeUrl = BypassSecurityTrustResourceUrl(GistPath(gist.gistId))]
    /\ loadTimer' = IF variant = "route" THEN LoadMs ELSE NoTask
    /\ sinceInit' = 0
    /\ trustCalls' = IF gist.gistId = "" THEN trustCalls ELSE trustCalls + 1
    /\ lastOp' = "GistComponent.ngOnInit"
    /\ UNCHANGED routerVars
    /\ UNCHANGED <<variant, appVars>>

\* ngOnInit(): build the locator; the route-driven version also starts the
\* one-shot loading timer
GistNgOnInit ==
    /\ gistPhase = "constructed"
    /\ gistPhase' = "initialized"
    /\ gist' = [gist EXCEPT
                  !.safeUrl = BypassSecurityTrustResourceUrl(GistPath(gist.gistId))]
    /\ loadTimer' = IF variant = "route" THEN LoadMs ELSE NoTask
    /\ sinceInit' = 0
    /\ trustCalls' = trustCalls + 1
    /\ lastOp' = "GistComponent.ngOnInit"
    /\ UNCHANGED routerVars
    /\ UNCHANGED <<variant, appVars>>

\* mutant: the params subscriber rebuilds the locator itself
RouteParamsResolves(id) ==
    /\ variant = "route"
    /\ gistPhase = "initialized"
    /\ Recognize(<<id>>).component = "GistComponent"
    /\ url' = <<id>>
    /\ activated' = Recognize(<<id>>)
    /\ gist' = [gist EXCEPT
                  !.gistId = id,
                  !.safeUrl = BypassSecurityTrustResourceUrl(GistPath(id))]
    /\ trustCalls' = trustCalls + 1
    /\ lastOp' = "GistComponent.params"
    /\ UNCHANGED <<variant, gistPhase, loadTimer, sinceInit, appVars>>

\* route.params.subscribe((params) => { this.gistId = params['gistId']; })
\* on a later navigation that reuses the component instance
RouteParams(id) ==
    /\ variant = "route"
    /\ gistPhase = "initialized"
    /\ Recognize(<<id>>).component = "GistComponent"
    /\ url' = <<id>>
    /\ activated' = Recognize(<<id>>)
    /\ gist' = [gist EXCEPT !.gistId = id]
    /\ lastOp' = "GistComponent.params"
    /\ UNCHANGED <<variant, gistPhase, loadTimer, sinceInit, trustCalls, appVars>>

\* the router recognizes a URL; when that activates the gist route the
\* params subscriber of the route-driven version receives the parameters
Navigate(p) ==
    /\ url' = p
    /\ activated' = Recognize(p)
    /\ gist' = IF variant = "route" /\ activated'.component = "GistComponent"
               THEN [gist EXCEPT !.gistId = GistIdParam(activated'.params)]
               ELSE gist
    /\ lastOp' = "Router.navigate"
    /\ UNCHANGED <<variant, gistPhase, loadTimer, sinceInit, trustCalls, appVars>>

\* @Input() gistId: the parent binding writes the field; the component has
\* no ngOnChanges
InputGistId(id) ==
    /\ variant = "input"
    /\ gist' = [gist EXCEPT !.gistId = id]
    /\ lastOp' = "GistComponent.gistId"
    /\ UNCHANGED routerVars
    /\ UNCHANGED <<variant, gistPhase, loadTimer, sinceInit, trustCalls, appVars>>

\* mutant: the flag follows the outcome of the load, not the timer
LoadingTimeoutIfLoaded ==
    /\ loadTimer = 0
    /\ loadTimer' = NoTask
    /\ gist' = IF gist.gistId \in BundledAssets
               THEN [gist EXCEPT !.loading = FALSE]
               ELSE gist
    /\ lastOp' = "GistComponent.timeout"
    /\ UNCHANGED routerVars
    /\ UNCHANGED <<variant, gistPhase, sinceInit, trustCalls, appVars>>

\* mutant: the timer callback also rebuilds the locator from the current
\* identifier
LoadingTimeoutRefreshes ==
    /\ loadTimer = 0
    /\ loadTimer' = NoTask
    /\ gist' = [gist EXCEPT
                  !.loading = FALSE,
                  !.safeUrl = BypassSecurityTrustResourceUrl(GistPath(gist.gistId))]
    /\ lastOp' = "GistComponent.timeout"
    /\ UNCHANGED routerVars
    /\ UNCHANGED <<variant, gistPhase, sinceInit, trustCalls, appVars>>

\* setTimeout(() => { this.loading = false; }, 1000)
LoadingTimeout ==
    /\ loadTimer = 0
    /\ loadTimer' = NoTask
    /\ gist' = [gist EXCEPT !.loading = FALSE]
    /\ lastOp' = "GistComponent.timeout"
    /\ UNCHANGED routerVars
    /\ UNCHANGED <<variant, gistPhase, sinceInit, trustCalls, appVars>>

\* ---------------------------------------------------------------- AppComponent

AppInit ==
    /\ innerWidth \in Widths
    /\ resizePending = FALSE
    /\ appPhase = "constructed"
    /\ sideNavOpened = FALSE
    /\ isSmallScreen = FALSE
    /\ subjectClosed = FALSE
    /\ subscription = "none"
    /\ lastValue = NoValue
    /\ sinceLast = 0
    /\ activeTask = NoTask
    /\ lastError = "none"
    /\ burstEvents = 0
    /\ burstOutputs = 0

\* mutant: the breakpoint itself counts as small
SmallScreenInclusive(w) == w <= SmallScreenWidth

\* window.innerWidth < 800
SmallScreen(w) == w < SmallScreenWidth

\* the viewport is resized; the browser dispatches the resize event in a
\* later task of the same instant
ViewportChange(w) ==
    /\ w # innerWidth
    /\ innerWidth' = w
    /\ resizePending' = TRUE
    /\ lastOp' = "window.resized"
    /\ UNCHANGED routerVars
    /\ UNCHANGED <<appPhase, sideNavOpened, isSmallScreen, subjectClosed,
                   subscription, lastValue, sinceLast, activeTask, lastError,
                   burstEvents, burstOutputs, gistVars>>

\* ngOnInit(): the two flags from the current width, then the subscription
\* to the debounced subject
AppNgOnInit ==
    /\ appPhase = "constructed"
    /\ appPhase' = "initialized"
    /\ isSmallScreen' = SmallScreen(innerWidth)
    /\ sideNavOpened' = ~isSmallScreen'
    /\ subscription' = "open"
    /\ lastOp' = "AppComponent.ngOnInit"
    /\ UNCHANGED routerVars
    /\ UNCHANGED <<innerWidth, resizePending, subjectClosed, lastValue,
                   sinceLast, activeTask, lastError, burstEvents, burstOutputs,
                   gistVars>>

\* mutant: the first value of a burst is kept, later ones are ignored
DebounceNextKeepFirst(v) ==
    /\ lastValue' = IF lastValue = NoValue THEN v ELSE lastValue
    /\ sinceLast' = 0
    /\ activeTask' = IF activeTask = NoTask THEN DebounceMs ELSE activeTask

\* mutant: a later value of a burst does not restart the window
DebounceNextNoRestart(v) ==
    /\ lastValue' = v
    /\ sinceLast' = IF activeTask = NoTask THEN 0 ELSE sinceLast
    /\ activeTask' = IF activeTask = NoTask THEN DebounceMs ELSE activeTask

\* debounceTime's handling of a source value: hold it, note the time, and
\* schedule the task unless one is scheduled
DebounceNext(v) ==
    /\ lastValue' = v
    /\ sinceLast' = 0
    /\ activeTask' = IF activeTask = NoTask THEN DebounceMs ELSE activeTask

\* @HostListener('window:resize') onWindowResize():
\* this.resizeSubject.next(window.innerWidth); next() on an unsubscribed
\* Subject throws ObjectUnsubscribedError, and next() on a Subject nobody
\* has subscribed to yet is lost
OnWindowResize ==
    /\ resizePending' = FALSE
    /\ lastOp' = "AppComponent.onWindowResize"
    /\ UNCHANGED routerVars
    /\ IF subjectClosed
       THEN /\ lastError' = "ObjectUnsubscribedError"
            /\ UNCHANGED <<lastValue, sinceLast, activeTask, burstEvents,
                           burstOutputs>>
       ELSE IF subscription = "none"
       THEN UNCHANGED <<lastValue, sinceLast, activeTask, burstEvents,
                        burstOutputs, lastError>>
       ELSE /\ DebounceNext(innerWidth)
            /\ burstEvents' = IF lastValue = NoValue
                               THEN 1
                               ELSE Min(burstEvents + 1, MaxBurstCount)
            /\ burstOutputs' = 0
            /\ UNCHANGED lastError
    /\ UNCHANGED <<innerWidth, appPhase, sideNavOpened, isSmallScreen,
                   subjectClosed, subscription, gistVars>>

\* mutant: the subscriber re-derives the navigation state as ngOnInit does
SubscriberSyncsNav(event) ==
    /\ isSmallScreen' = SmallScreen(innerWidth)
    /\ sideNavOpened' = ~isSmallScreen'

\* mutant: the subscriber opens the navigation on a large screen
SubscriberOpensNav(event) ==
    /\ isSmallScreen' = SmallScreen(innerWidth)
    /\ sideNavOpened' = (sideNavOpened \/ ~isSmallScreen')

\* the subscriber: (event) => { this.isSmallScreen = window.innerWidth < 800; }
Subscriber(event) ==
    /\ isSmallScreen' = SmallScreen(innerWidth)
    /\ UNCHANGED sideNavOpened

\* mutant: the scheduled task emits without looking at the time of the last
\* value (the window is not restarted by later values)
EmitAtFirstDeadline ==
    /\ activeTask = 0
    /\ activeTask' = NoTask
    /\ lastValue' = NoValue
    /\ Subscriber(lastValue)
    /\ burstOutputs' = burstOutputs + 1
    /\ lastOp' = "AppComponent.subscriber"
    /\ UNCHANGED routerVars
    /\ UNCHANGED <<innerWidth, resizePending, appPhase, subjectClosed,
                   subscription, sinceLast, lastError, burstEvents, gistVars>>

\* debounceTime's scheduled task: if a value arrived since it was scheduled,
\* wait out the rest of that value's window; otherwise emit the held value
EmitWhenIdle ==
    /\ activeTask = 0
    /\ \/ /\ sinceLast < DebounceMs
          /\ activeTask' = DebounceMs - sinceLast
          /\ lastOp' = "debounceTime.reschedule"
          /\ UNCHANGED routerVars
          /\ UNCHANGED <<lastValue, isSmallScreen, sideNavOpened, burstEvents,
                         burstOutputs>>
       \/ /\ sinceLast >= DebounceMs
          /\ activeTask' = NoTask
          /\ lastValue' = NoValue
          /\ Subscriber(lastValue)
          /\ burstOutputs' = burstOutputs + 1
          /\ UNCHANGED burstEvents
          /\ lastOp' = "AppComponent.subscriber"
          /\ UNCHANGED routerVars
    /\ UNCHANGED <<innerWidth, resizePending, appPhase, subjectClosed,
                   subscription, sinceLast, lastError, gistVars>>

\* ngOnDestroy(): this.resizeSubject.unsubscribe() closes the Subject and
\* drops its observer list; the Subscription made in ngOnInit and the task
\* debounceTime scheduled are not touched
AppNgOnDestroy ==
    /\ appPhase = "initialized"
    /\ appPhase' = "destroyed"
    /\ subjectClosed' = TRUE
    /\ lastOp' = "AppComponent.ngOnDestroy"
    /\ UNCHANGED routerVars
    /\ UNCHANGED <<innerWidth, resizePending, sideNavOpened, isSmallScreen,
                   subscription, lastValue, sinceLast, activeTask, lastError, burstEvents,
                   burstOutputs, gistVars>>

\* the shell's template consumes SideNavComponent.sidenav_closed
SidenavClosed ==
    /\ appPhase = "initialized"
    /\ sideNavOpened' = FALSE
    /\ lastOp' = "AppComponent.sidenav_closed"
    /\ UNCHANGED routerVars
    /\ UNCHANGED <<innerWidth, resizePending, appPhase, isSmallScreen,
                   subjectClosed, subscription, lastValue, sinceLast,
                   activeTask, lastError, burstEvents, burstOutputs, gistVars>>

\* ---------------------------------------------------------------- time

Elapse(t) == IF t = NoTask THEN NoTask ELSE t - TickMs

\* TickMs pass; no timer is overdue and no resize event is undispatched
Tick ==
    /\ ~resizePending
    /\ activeTask # 0
    /\ loadTimer # 0
    /\ activeTask' = Elapse(activeTask)
    /\ loadTimer' = Elapse(loadTimer)
    /\ sinceLast' = IF lastValue = NoValue /\ burstOutputs = 0
                    THEN sinceLast
                    ELSE Min(sinceLast + TickMs, DebounceMs + ExtraTicks * TickMs)
    /\ sinceInit' = IF gistPhase = "initialized"
                    THEN Min(sinceInit + TickMs, LoadMs + ExtraTicks * TickMs)
                    ELSE sinceInit
    /\ lastOp' = "tick"
    /\ UNCHANGED routerVars
    /\ UNCHANGED <<innerWidth, resizePending, appPhase, sideNavOpened,
                   isSmallScreen, subjectClosed, subscription, lastValue,
                   lastError, burstEvents, burstOutputs, variant, gistPhase,
                   gist, trustCalls>>

\* ---------------------------------------------------------------- specifications

Init == AppInit /\ GistInit /\ lastOp = "constructor"

NextApp ==
    \/ \E w \in Widths : ViewportChange(w)
    \/ AppNgOnInit
    \/ OnWindowResize
    \/ EmitWhenIdle
    \/ SidenavClosed
    \/ AppNgOnDestroy
    \/ Tick

NextGist ==
    \/ GistNgOnInit
    \/ \E id \in Ids : RouteParams(id)
    \/ \E id \in Ids : InputGistId(id)
    \/ LoadingTimeout
    \/ Tick

NextRoute ==
    \/ \E p \in Paths : Navigate(p)
    \/ GistNgOnInit

Next == NextApp \/ NextGist

\* the shell alone
SpecApp == Init /\ [][NextApp]_vars
\* the gist page alone
SpecGist == Init /\ [][NextGist]_vars
\* the router and the gist page it activates
SpecRoute == Init /\ [][NextRoute]_vars
\* both
Spec == Init /\ [][Next]_vars

\* ---------------------------------------------------------------- properties

\* C1: whenever GistComponent.ngOnInit runs with gistId = id, safeUrl becomes
\* the trusted wrapper of exactly "assets/html/gist_" + id + ".html", the
\* identifier substituted verbatim ("abc123" gives gist_abc123.html, "../x"
\* gives gist_../x.html), in the route-driven and in the @Input version.
C1_LocatorIsTemplate ==
    [][lastOp' = "GistComponent.ngOnInit" =>
         /\ gist'.safeUrl.trusted
         /\ gist'.safeUrl.changingThisBreaksApplicationSecurity
              = "assets/html/gist_" \o gist.gistId \o ".html"
         /\ gist.gistId = "abc123" =>
              gist'.safeUrl.changingThisBreaksApplicationSecurity
                = "assets/html/gist_abc123.html"
         /\ gist.gistId = "../x" =>
              gist'.safeUrl.changingThisBreaksApplicationSecurity
                = "assets/html/gist_../x.html"
         /\ gist'.gistId = gist.gistId]_vars

\* C1 witness: ngOnInit has just run on an identifier with a path-traversal
\* sequence, and the locator carries it unescaped
C1_Witness ==
    /\ lastOp = "GistComponent.ngOnInit"
    /\ gist.gistId = "../x"
    /\ gist.safeUrl = [trusted |-> TRUE,
                       changingThisBreaksApplicationSecurity |->
                           "assets/html/gist_../x.html"]

\* C2: in the route-driven GistComponent loading is true from construction
\* until 1000 ms after ngOnInit and false from then on; it changes only once,
\* from true to false, in the timer callback, whether or not the asset exists.
C2_LoadingFlipsOnce ==
    /\ [](variant = "route" =>
            /\ gistPhase = "constructed" => gist.loading
            /\ gistPhase = "initialized" /\ sinceInit < LoadMs => gist.loading
            /\ sinceInit >= LoadMs /\ loadTimer # 0 => ~gist.loading
            /\ sinceInit > LoadMs => ~gist.loading)
    /\ [][variant = "route" /\ gist'.loading # gist.loading =>
            /\ gist.loading
            /\ ~gist'.loading
            /\ sinceInit = LoadMs
            /\ lastOp' = "GistComponent.timeout"]_vars

\* C2 witness: the flag has flipped for an identifier whose asset is not in
\* the bundle
C2_Witness ==
    /\ variant = "route"
    /\ gistPhase = "initialized"
    /\ sinceInit >= LoadMs
    /\ ~gist.loading
    /\ gist.gistId \notin BundledAssets
    /\ gist.safeUrl.changingThisBreaksApplicationSecurity
         = "assets/html/gist_../x.html"

\* C3 (as stated): every burst of resize events followed by 200 quiet ms
\* yields exactly one run of the subscriber, which sets isSmallScreen from
\* the width carried by the last resize event of the burst.
C3_Original ==
    /\ [](/\ burstOutputs <= 1
          /\ sinceLast > DebounceMs => burstOutputs = 1)
    /\ [][lastOp' = "AppComponent.subscriber" =>
            /\ sinceLast >= DebounceMs
            /\ lastValue # NoValue
            /\ isSmallScreen' = (lastValue < 800)]_vars

\* C3 (amended): every burst of resize events followed by 200 quiet ms yields
\* exactly one run of the subscriber, 200 ms or more after the burst's last
\* event; the subscriber sets isSmallScreen from window.innerWidth as it is
\* when the subscriber runs, which is the last event's width whenever the
\* viewport has not changed since that event.
C3_DebouncedRecompute ==
    /\ [](/\ burstOutputs <= 1
          /\ sinceLast > DebounceMs => burstOutputs = 1)
    /\ [][lastOp' = "AppComponent.subscriber" =>
            /\ sinceLast >= DebounceMs
            /\ lastValue # NoValue
            /\ isSmallScreen' = (innerWidth < 800)
            /\ innerWidth = lastValue => isSmallScreen' = (lastValue < 800)]_vars

\* C3 witness: a burst has been answered by its one recomputation, which
\* changed the flag ngOnInit had set
C3_Witness ==
    /\ lastOp = "AppComponent.subscriber"
    /\ burstOutputs = 1
    /\ sinceLast >= DebounceMs
    /\ ~isSmallScreen
    /\ ~sideNavOpened
    /\ innerWidth = 1200

\* C4: right after AppComponent.ngOnInit, isSmallScreen = (width < 800) and
\* sideNavOpened = ~isSmallScreen: 700 gives (true, false), 1200 gives
\* (false, true), and 800 is not small.
C4_InitialLayout ==
    lastOp = "AppComponent.ngOnInit" =>
        /\ isSmallScreen = (innerWidth < 800)
        /\ sideNavOpened = ~isSmallScreen
        /\ innerWidth = 700 => isSmallScreen /\ ~sideNavOpened
        /\ innerWidth = 1200 => ~isSmallScreen /\ sideNavOpened
        /\ innerWidth = 800 => ~isSmallScreen /\ sideNavOpened

\* C4 witness: initialised at exactly the breakpoint
C4_Witness ==
    /\ lastOp = "AppComponent.ngOnInit"
    /\ appPhase = "initialized"
    /\ innerWidth = 800
    /\ ~isSmallScreen
    /\ sideNavOpened

\* C5: no viewport change, resize event, debounce rescheduling or debounced
\* recomputation changes sideNavOpened, in either direction.
C5_ResizeKeepsSideNav ==
    [][lastOp' \in {"window.resized", "AppComponent.onWindowResize",
                    "debounceTime.reschedule", "AppComponent.subscriber"} =>
         sideNavOpened' = sideNavOpened]_vars

\* C5 witness: opened at a large width, resized to 500, the debounce window
\* has elapsed: the screen is small and the navigation is still open
C5_Witness ==
    /\ lastOp = "AppComponent.subscriber"
    /\ innerWidth = 500
    /\ isSmallScreen
    /\ sideNavOpened

\* C6: consuming sidenav_closed sets sideNavOpened to false and leaves
\* isSmallScreen alone; once ngOnInit has run, no other transition changes
\* sideNavOpened.
C6_OnlyCloseChangesSideNav ==
    [][/\ lastOp' = "AppComponent.sidenav_closed" =>
            ~sideNavOpened' /\ isSmallScreen' = isSmallScreen
       /\ appPhase # "constructed" /\ sideNavOpened' # sideNavOpened =>
            lastOp' = "AppComponent.sidenav_closed"]_vars

\* C6 witness: the navigation, opened by ngOnInit on a large screen, has
\* been closed by the signal, and the screen is still large
C6_Witness ==
    /\ lastOp = "AppComponent.sidenav_closed"
    /\ ~sideNavOpened
    /\ ~isSmallScreen
    /\ lastValue = NoValue
    /\ burstOutputs = 0

\* C7: once resolution has happened, safeUrl always wraps the path of the
\* current gistId, whatever identifier changes the instance has seen.
C7_LocatorFollowsIdentifier ==
    gistPhase = "initialized" =>
        gist.safeUrl = [trusted |-> TRUE,
                        changingThisBreaksApplicationSecurity |->
                            "assets/html/gist_" \o gist.gistId \o ".html"]

\* C8: after ngOnDestroy the subscriber never runs and isSmallScreen is
\* never modified, also when a debounce window was pending at teardown.
C8_PendingWindowDiscarded ==
    [][appPhase = "destroyed" =>
         /\ lastOp' # "AppComponent.subscriber"
         /\ isSmallScreen' = isSmallScreen]_vars

\* C9: ngOnDestroy releases the subscription made in ngOnInit, leaving
\* nothing scheduled, and a resize signal after ngOnDestroy changes neither
\* isSmallScreen nor sideNavOpened and starts no recomputation.
C9_ListenerReleased ==
    /\ [](appPhase = "destroyed" =>
            subscription = "closed" /\ activeTask = NoTask)
    /\ [][appPhase = "destroyed" /\ lastOp' = "AppComponent.onWindowResize" =>
            /\ isSmallScreen' = isSmallScreen
            /\ sideNavOpened' = sideNavOpened
            /\ activeTask' = activeTask
            /\ lastValue' = lastValue]_vars

\* C10 (as stated): two resize events less than 200 ms apart yield one
\* recomputation, based on the later event's width; the earlier measurement
\* is dropped and never shows in isSmallScreen.
C10_Original ==
    /\ [](burstOutputs <= 1)
    /\ [][/\ (/\ lastOp' = "AppComponent.onWindowResize"
              /\ ~subjectClosed
              /\ lastValue # NoValue \/ burstOutputs > 0
              /\ sinceLast < DebounceMs) =>
                /\ burstOutputs = 0
                /\ lastValue # NoValue
                /\ lastValue' = innerWidth
                /\ isSmallScreen' = isSmallScreen
          /\ lastOp' = "AppComponent.subscriber" /\ burstEvents >= 2 =>
                /\ burstOutputs' = 1
                /\ lastValue' = NoValue
                /\ activeTask' = NoTask
                /\ isSmallScreen' = (lastValue < 800)]_vars

\* C10 (amended): two resize events less than 200 ms apart yield one
\* recomputation; the earlier measurement is overwritten by the later one in
\* the debouncer, not queued, and no recomputation happens between the two;
\* the recomputation reads window.innerWidth as it is when it runs, which is
\* the later event's width whenever the viewport has not changed since.
C10_PairCoalesced ==
    /\ [](burstOutputs <= 1)
    /\ [][/\ (/\ lastOp' = "AppComponent.onWindowResize"
              /\ ~subjectClosed
              /\ lastValue # NoValue \/ burstOutputs > 0
              /\ sinceLast < DebounceMs) =>
                /\ burstOutputs = 0
                /\ lastValue # NoValue
                /\ lastValue' = innerWidth
                /\ isSmallScreen' = isSmallScreen
          /\ lastOp' = "AppComponent.subscriber" /\ burstEvents >= 2 =>
                /\ burstOutputs' = 1
                /\ lastValue' = NoValue
                /\ activeTask' = NoTask
                /\ isSmallScreen' = (innerWidth < 800)
                /\ innerWidth = lastValue =>
                       isSmallScreen' = (lastValue < 800)]_vars

\* C10 witness: a burst of two events (the earlier one at 1200, the later
\* at 500, as isSmallScreen shows) has been answered by one recomputation
C10_Witness ==
    /\ lastOp = "AppComponent.subscriber"
    /\ burstEvents >= 2
    /\ burstOutputs = 1
    /\ innerWidth = 500
    /\ isSmallScreen
    /\ ~sideNavOpened

\* C11: safeUrl is the empty placeholder in every state before ngOnInit has
\* run and a trusted, non-empty locator in every state after it, whatever the
\* identifier, the empty one of a never-bound @Input included.
C11_PlaceholderUntilResolved ==
    /\ gistPhase = "constructed" =>
          /\ ~gist.safeUrl.trusted
          /\ gist.safeUrl.changingThisBreaksApplicationSecurity = ""
    /\ gistPhase = "initialized" =>
          /\ gist.safeUrl.trusted
          /\ gist.safeUrl.changingThisBreaksApplicationSecurity # ""

\* C11 witness: ngOnInit has run on the empty identifier and the locator is
\* not empty
C11_Witness ==
    /\ lastOp = "GistComponent.ngOnInit"
    /\ gist.gistId = ""
    /\ gist.safeUrl.changingThisBreaksApplicationSecurity
         = "assets/html/gist_.html"

\* C12: every run of GistComponent.ngOnInit calls
\* bypassSecurityTrustResourceUrl once and no other step (params subscriber,
\* @Input write, loading timer, any AppComponent handler, the clock) calls
\* it, so the calls made equal the resolutions made.
C12_OneTrustCallPerResolution ==
    [][/\ lastOp' = "GistComponent.ngOnInit" => trustCalls' = trustCalls + 1
       /\ lastOp' # "GistComponent.ngOnInit" => trustCalls' = trustCalls
       /\ trustCalls' = IF gistPhase' = "initialized" THEN 1 ELSE 0]_vars

\* C12 witness: one call has been made, and since then the identifier has
\* changed, the loading timer has expired and the shell has recomputed
C12_Witness ==
    /\ trustCalls = 1
    /\ variant = "route"
    /\ ~gist.loading
    /\ gist.safeUrl.changingThisBreaksApplicationSecurity
         # "assets/html/gist_" \o gist.gistId \o ".html"
    /\ burstOutputs = 1

\* C13: the subscriber never runs less than 200 ms after the most recent
\* resize event, nothing else recomputes isSmallScreen after ngOnInit, and
\* every resize event restarts the window, so a stream of events less than
\* 200 ms apart yields no recomputation while it lasts.
C13_NoOutputBeforeWindowCloses ==
    /\ [](sinceLast < DebounceMs => burstOutputs = 0)
    /\ [][/\ appPhase # "constructed" /\ isSmallScreen' # isSmallScreen =>
                lastOp' = "AppComponent.subscriber"
          /\ lastOp' = "AppComponent.subscriber" => sinceLast >= DebounceMs
          /\ (/\ lastOp' = "AppComponent.onWindowResize"
              /\ subscription = "open"
              /\ ~subjectClosed) =>
                /\ sinceLast' = 0
                /\ activeTask' # NoTask
                /\ burstOutputs' = 0
                /\ isSmallScreen' = isSmallScreen
          /\ lastOp' = "debounceTime.reschedule" =>
                /\ activeTask' = DebounceMs - sinceLast
                /\ activeTask' > 0
                /\ isSmallScreen' = isSmallScreen]_vars

\* C13 witness: the task scheduled by the first event of a burst has come
\* due after a later event, and has waited on instead of emitting
C13_Witness ==
    /\ lastOp = "debounceTime.reschedule"
    /\ burstEvents >= 2
    /\ burstOutputs = 0
    /\ sinceLast < DebounceMs
    /\ activeTask > 0

\* C14: the loading timer's expiry changes only GistComponent.loading, and a
\* debounced firing changes, of the components' fields, only
\* AppComponent.isSmallScreen; neither touches the other timer or what the
\* other callback reads, so the two expiries commute.
C14_TimersIndependent ==
    [][/\ lastOp' = "GistComponent.timeout" =>
            /\ gist' = [gist EXCEPT !.loading = FALSE]
            /\ UNCHANGED <<isSmallScreen, sideNavOpened, innerWidth,
                           activeTask, lastValue, sinceLast>>
       /\ lastOp' = "AppComponent.subscriber" =>
            /\ isSmallScreen' = (innerWidth < 800)
            /\ UNCHANGED <<gist, loadTimer, sideNavOpened, innerWidth>>]_vars

\* C14 witness: both timers have expired in the same instant, the debounce
\* first, and each callback's effect is there
C14_Witness ==
    /\ lastOp = "GistComponent.timeout"
    /\ ~gist.loading
    /\ sinceInit = LoadMs
    /\ burstOutputs = 1
    /\ sinceLast = DebounceMs
    /\ isSmallScreen
    /\ sideNavOpened

\* C15: the empty path activates WelcomeComponent; a path of one segment s
\* activates GistComponent with gistId = s, whatever its characters, and the
\* route-driven component holds s in gistId before ngOnInit builds the
\* locator from it; a longer path is redirected to the empty path. The
\* wildcard, declared last, never takes a one-segment path.
C15_RouteResolution ==
    /\ url = <<>> =>
          activated = [component |-> "WelcomeComponent", params |-> {},
                       url |-> <<>>]
    /\ Len(url) = 1 =>
          activated = [component |-> "GistComponent",
                       params |-> {<<"gistId", url[1]>>}, url |-> url]
    /\ Len(url) > 1 =>
          activated = [component |-> "WelcomeComponent", params |-> {},
                       url |-> <<>>]
    /\ variant = "route" /\ Len(url) = 1 => gist.gistId = url[1]
    /\ (/\ variant = "route"
        /\ Len(url) = 1
        /\ lastOp = "GistComponent.ngOnInit") =>
          gist.safeUrl.changingThisBreaksApplicationSecurity
            = "assets/html/gist_" \o url[1] \o ".html"

\* C15 witness: after a navigation to /welcome the gist route, not the
\* wildcard, is activated, and ngOnInit has built the locator from the segment
C15_Witness ==
    /\ url = <<"welcome">>
    /\ activated.component = "GistComponent"
    /\ variant = "route"
    /\ lastOp = "GistComponent.ngOnInit"
    /\ gist.safeUrl.changingThisBreaksApplicationSecurity
         = "assets/html/gist_welcome.html"

====
